---- MODULE Spec2Model ----
(***************************************************************************)
(* Model of bench/runner.py: the benchmarking harness of simplesat.         *)
(*                                                                         *)
(* main() creates the parent directory of the log, opens the log, and for  *)
(* every folder and every path that folder.glob('*.cnf') yields calls      *)
(* solve() and writes one csv row.  solve() checks that the instance and    *)
(* the solver binary are files, runs the binary as a child process under a  *)
(* timeout and returns the elapsed milliseconds, or None on a timeout.      *)
(*                                                                         *)
(* The file system, the child process and a SIGKILL of the harness are the  *)
(* environment: the executable may disappear, an enumerated instance may    *)
(* vanish before solve() looks at it, the child may start processes of its  *)
(* own, and the harness may be killed at any point while the log is open.   *)
(***************************************************************************)
EXTENDS Integers, Sequences, FiniteSets, TLC

\* ---------------------------------------------------------------- bounds
\* Number of folders given on the command line (nargs='+': at least one).
MaxFolders == 2
\* Number of directory entries one folder holds.
MaxEntries == 2
\* Number of instances enumerated over a whole run.
MaxTotal == 3

\* ------------------------------------------------------- program constants
\* duration = (time.perf_counter_ns() - start) // 1_000_000
NsPerMs == 1000000

\* Elapsed nanoseconds of a child that exits before the timeout.
ElapsedNs == {999999, 1000000}

\* Optional[int]: None, or an integer.
None == <<>>
Some(n) == <<n>>

\* Exit codes of the solver.
ExitCodes == {0, 1}

\* Mutant: the duration is rounded to the nearest millisecond.
DurationRounded(ns) == (ns + NsPerMs \div 2) \div NsPerMs

\* duration = (time.perf_counter_ns() - start) // 1_000_000
DurationMs(ns) == ns \div NsPerMs

\* -------------------------------------------------------------- timedelta
\* TIMEOUT = timedelta(seconds=30)
TimeoutSeconds == 30

\* timedelta(seconds=s, milliseconds=ms): a timedelta is kept normalised as
\* days, seconds (0..86399) and microseconds (0..999999).
timedelta(s, ms) ==
    LET total == s * 1000 + ms IN
    [days         |-> total \div 86400000,
     seconds      |-> (total % 86400000) \div 1000,
     microseconds |-> (total % 1000) * 1000]

\* timedelta.seconds: the seconds field, not the whole duration.
timedelta_seconds(td) == td.seconds

\* ------------------------------------------------------------------ paths
\* A path is a sequence of components; a component has a stem and a suffix.
Component(stem, suffix) == [stem |-> stem, suffix |-> suffix]

RECURSIVE JoinPosix(_)
JoinPosix(p) ==
    IF p = <<>> THEN ""
    ELSE IF Len(p) = 1 THEN p[1].stem \o p[1].suffix
    ELSE p[1].stem \o p[1].suffix \o "/" \o JoinPosix(Tail(p))

\* Path.as_posix(): the components joined by forward slashes.
as_posix(p) == JoinPosix(p)

\* str(solve_time): str(None) is "None", str(n) the decimal digits of n.
str(t) == IF t = None THEN "None" ELSE ToString(t[1])

\* The folders argument: folder i of the command line.
FolderPath(i) == <<Component("set" \o ToString(i), "")>>

\* ------------------------------------------------------------ file system
\* A directory entry: its name, and whether it is a regular file or a
\* directory.  Entry j of a folder is named after j.
EntryKinds == {[suffix |-> ".cnf", kind |-> "file"],
               [suffix |-> ".cnf", kind |-> "dir"],
               [suffix |-> ".txt", kind |-> "file"]}

Listings == UNION {[1..n -> EntryKinds] : n \in 0..MaxEntries}

FolderStates == {"dir", "missing", "unreadable"}

\* fnmatch of a name against '*.cnf'.
MatchesPattern(e) == e.suffix = ".cnf"

RECURSIVE GlobFrom(_, _, _)
GlobFrom(folder, listing, j) ==
    IF j > Len(listing) THEN <<>>
    ELSE (IF MatchesPattern(listing[j])
          THEN <<[path |-> folder \o <<Component("i" \o ToString(j), listing[j].suffix)>>,
                  kind |-> listing[j].kind]>>
          ELSE <<>>) \o GlobFrom(folder, listing, j + 1)

\* folder.glob('*.cnf'): the direct children whose name matches, in the
\* directory's order; nothing (and no error) for a folder that is missing
\* or cannot be read.
Glob(folder, state, listing) ==
    IF state = "dir" THEN GlobFrom(folder, listing, 1) ELSE <<>>

VARIABLES
    pc,            \* position of main/solve
    nFolders,      \* len(folders)
    fi,            \* index of the folder of the outer loop
    folderState,   \* state of that folder on disk
    cur,           \* what folder.glob('*.cnf') yields for it
    ei,            \* index of instance_file in cur
    vanished,      \* instance_file was removed after it was enumerated
    exe,           \* the solver binary: "ok", "noexec" or "missing"
    parent,        \* output_file.parent: "dir", "absent", "no_ancestor" (its own parent is absent too)
    disk,          \* rows of the log file on disk
    buf,           \* rows in the buffer of the open file object
    logOpen,       \* the with block holds the file open
    solve_time,    \* what solve returned
    child,         \* the child process: "none", "running", "exited", "killed"
    desc,          \* the running child has started a process of its own
    orphans,       \* a process started by a timed-out child is alive
    exitStatus,    \* exit status of the harness, -1 while it runs
    abortCause,    \* the uncaught exception, "" if none
    enumerated,    \* history: paths the globs have yielded so far
    results,       \* history: solve_time of every row written
    spawned,       \* history: child processes started
    validations,   \* history: evaluations of solver_binary.is_file()
    exe0,          \* history: the solver binary when the run started
    disk0,         \* history: the file at the output path when the run started
    elapsed_ns,    \* history: time.perf_counter_ns() - start of the last solve, None on a timeout
    returncode,    \* exit code of the child that just exited (subprocess.run's result is dropped)
    reaped,        \* history: child processes that have exited or were killed
    TIMEOUT,       \* the module constant TIMEOUT, a timedelta
    deadline,      \* the timeout= argument of the last subprocess.run
    now,           \* the wall clock, in milliseconds
    started        \* runs started without --output_file: start time and default output_file

vars == <<pc, nFolders, fi, folderState, cur, ei, vanished, exe, parent, disk, buf,
          logOpen, solve_time, child, desc, orphans, exitStatus, abortCause,
          enumerated, results, spawned, validations, exe0, disk0, elapsed_ns,
          returncode, reaped, TIMEOUT, deadline, now, started>>

\* A row left in the log by an earlier run.
OldRow == <<"old/i1.cnf", "7">>

Init ==
    /\ pc = "Uninitialized"
    /\ nFolders \in 1..MaxFolders
    /\ fi = 0
    /\ folderState = "dir"
    /\ cur = <<>>
    /\ ei = 0
    /\ vanished = FALSE
    /\ exe \in {"ok", "noexec", "missing"}
    /\ parent \in {"dir", "absent", "no_ancestor"}
    /\ disk \in (IF parent = "dir" THEN {<<>>, <<OldRow>>} ELSE {<<>>})
    /\ buf = <<>>
    /\ logOpen = FALSE
    /\ solve_time = None
    /\ child = "none"
    /\ desc = FALSE
    /\ orphans = FALSE
    /\ exitStatus = -1
    /\ abortCause = ""
    /\ enumerated = <<>>
    /\ results = <<>>
    /\ spawned = 0
    /\ validations = 0
    /\ exe0 = exe
    /\ disk0 = disk
    /\ elapsed_ns = None
    /\ returncode = None
    /\ reaped = 0
    /\ TIMEOUT = timedelta(TimeoutSeconds, 0)
    /\ deadline = None
    /\ now = 0
    /\ started = <<>>

Running == {"Uninitialized", "ParentReady", "FolderLoop", "InstanceLoop", "SolveEntry",
            "CheckBinary", "Spawn", "Waiting", "Recording"}

\* The instance_file of the inner loop.
instance_file == cur[ei]

\* Path.is_file() of the instance.
InstanceIsFile == instance_file.kind = "file" /\ ~vanished

\* Mutant: the file is not closed when an exception leaves main (no with
\* block), so what was buffered is lost.
AbortNoClose(cause) ==
    /\ pc' = "Aborted"
    /\ abortCause' = cause
    /\ exitStatus' = 1
    /\ disk' = disk
    /\ buf' = <<>>
    /\ logOpen' = FALSE

\* An exception leaves main: the with block (if entered) closes the file,
\* which writes the buffer out, and the interpreter exits with status 1.
Abort(cause) ==
    /\ pc' = "Aborted"
    /\ abortCause' = cause
    /\ exitStatus' = 1
    /\ disk' = IF logOpen THEN disk \o buf ELSE disk
    /\ buf' = <<>>
    /\ logOpen' = FALSE

\* lines 59-60: if not output_file.parent.is_dir(): output_file.parent.mkdir()
\* mkdir() without parents=True raises FileNotFoundError when the parent's
\* own parent is absent.
MkdirParent ==
    /\ pc = "Uninitialized"
    /\ IF parent = "no_ancestor"
       THEN /\ Abort("FileNotFoundError")
            /\ UNCHANGED parent
       ELSE /\ parent' = "dir"
            /\ pc' = "ParentReady"
            /\ UNCHANGED <<abortCause, exitStatus, disk, buf, logOpen>>
    /\ UNCHANGED <<nFolders, fi, folderState, cur, ei, vanished, exe, solve_time, child,
                   desc, orphans, enumerated, results, spawned, validations, exe0,
                   disk0, elapsed_ns, returncode, reaped, TIMEOUT, deadline, now, started>>

\* Mutant: the log is opened in append mode.
OpenLogAppend ==
    /\ pc = "ParentReady"
    /\ disk' = disk
    /\ buf' = <<>>
    /\ logOpen' = TRUE
    /\ pc' = "FolderLoop"
    /\ UNCHANGED <<nFolders, fi, folderState, cur, ei, vanished, exe, parent, solve_time,
                   child, desc, orphans, exitStatus, abortCause, enumerated, results,
                   spawned, validations, exe0,
                   disk0, elapsed_ns, returncode, reaped, TIMEOUT, deadline, now, started>>

\* lines 62-63: output_file.open('w', newline=''); mode 'w' truncates.
OpenLog ==
    /\ pc = "ParentReady"
    /\ disk' = <<>>
    /\ buf' = <<>>
    /\ logOpen' = TRUE
    /\ pc' = "FolderLoop"
    /\ UNCHANGED <<nFolders, fi, folderState, cur, ei, vanished, exe, parent, solve_time,
                   child, desc, orphans, exitStatus, abortCause, enumerated, results,
                   spawned, validations, exe0,
                   disk0, elapsed_ns, returncode, reaped, TIMEOUT, deadline, now, started>>

\* line 65-66: the next folder of the outer loop, and its glob.  The folder's
\* state and entries are whatever the file system holds at that moment.
NextFolder ==
    /\ pc = "FolderLoop"
    /\ fi < nFolders
    /\ \E st \in FolderStates, listing \in Listings :
          LET g == Glob(FolderPath(fi + 1), st, listing) IN
          /\ st # "dir" => listing = <<>>
          /\ Len(enumerated) + Len(g) <= MaxTotal
          /\ folderState' = st
          /\ cur' = g
          /\ enumerated' = enumerated \o [j \in 1..Len(g) |-> g[j].path]
    /\ fi' = fi + 1
    /\ ei' = 0
    /\ pc' = "InstanceLoop"
    /\ UNCHANGED <<nFolders, vanished, exe, parent, disk, buf, logOpen, solve_time, child,
                   desc, orphans, exitStatus, abortCause, results, spawned, validations, exe0,
                   disk0, elapsed_ns, returncode, reaped, TIMEOUT, deadline, now, started>>

\* line 65 exhausted: the with block closes the log and main returns.
Complete ==
    /\ pc = "FolderLoop"
    /\ fi >= nFolders
    /\ disk' = disk \o buf
    /\ buf' = <<>>
    /\ logOpen' = FALSE
    /\ exitStatus' = 0
    /\ pc' = "Completed"
    /\ UNCHANGED <<nFolders, fi, folderState, cur, ei, vanished, exe, parent, solve_time,
                   child, desc, orphans, abortCause, enumerated, results, spawned,
                   validations, exe0,
                   disk0, elapsed_ns, returncode, reaped, TIMEOUT, deadline, now, started>>

\* line 66: the next instance_file of the inner loop.
NextInstance ==
    /\ pc = "InstanceLoop"
    /\ ei < Len(cur)
    /\ ei' = ei + 1
    /\ vanished' = FALSE
    /\ pc' = "SolveEntry"
    /\ UNCHANGED <<nFolders, fi, folderState, cur, exe, parent, disk, buf, logOpen,
                   solve_time, child, desc, orphans, exitStatus, abortCause, enumerated,
                   results, spawned, validations, exe0,
                   disk0, elapsed_ns, returncode, reaped, TIMEOUT, deadline, now, started>>

\* line 66 exhausted: back to the outer loop.
EndFolder ==
    /\ pc = "InstanceLoop"
    /\ ei >= Len(cur)
    /\ pc' = "FolderLoop"
    /\ UNCHANGED <<nFolders, fi, folderState, cur, ei, vanished, exe, parent, disk, buf,
                   logOpen, solve_time, child, desc, orphans, exitStatus, abortCause,
                   enumerated, results, spawned, validations, exe0,
                   disk0, elapsed_ns, returncode, reaped, TIMEOUT, deadline, now, started>>

\* Mutant: an instance that is not a file is skipped.
CheckInstanceSkips ==
    /\ pc = "SolveEntry"
    /\ pc' = IF InstanceIsFile THEN "CheckBinary" ELSE "InstanceLoop"
    /\ UNCHANGED <<nFolders, fi, folderState, cur, ei, vanished, exe, parent, disk, buf,
                   logOpen, solve_time, child, desc, orphans, exitStatus, abortCause,
                   enumerated, results, spawned, validations, exe0,
                   disk0, elapsed_ns, returncode, reaped, TIMEOUT, deadline, now, started>>

\* lines 27-28: assert instance_file.is_file()
CheckInstance ==
    /\ pc = "SolveEntry"
    /\ IF InstanceIsFile
       THEN /\ pc' = "CheckBinary"
            /\ UNCHANGED <<abortCause, exitStatus, disk, buf, logOpen>>
       ELSE Abort("AssertionError: instance")
    /\ UNCHANGED <<nFolders, fi, folderState, cur, ei, vanished, exe, parent, solve_time,
                   child, desc, orphans, enumerated, results, spawned, validations, exe0,
                   disk0, elapsed_ns, returncode, reaped, TIMEOUT, deadline, now, started>>

\* lines 30-32: assert solver_binary.is_file()
CheckBinary ==
    /\ pc = "CheckBinary"
    /\ validations' = validations + 1
    /\ IF exe # "missing"
       THEN /\ pc' = "Spawn"
            /\ UNCHANGED <<abortCause, exitStatus, disk, buf, logOpen>>
       ELSE Abort("AssertionError: binary")
    /\ UNCHANGED <<nFolders, fi, folderState, cur, ei, vanished, exe, parent, solve_time,
                   child, desc, orphans, enumerated, results, spawned, exe0,
                   disk0, elapsed_ns, returncode, reaped, TIMEOUT, deadline, now, started>>

\* lines 35-37: subprocess.run starts the child.
SpawnChild ==
    /\ pc = "Spawn"
    /\ exe = "ok"
    /\ child' = "running"
    /\ desc' = FALSE
    /\ spawned' = spawned + 1
    /\ deadline' = Some(timedelta_seconds(TIMEOUT))
    /\ pc' = "Waiting"
    /\ UNCHANGED <<nFolders, fi, folderState, cur, ei, vanished, exe, parent, disk, buf,
                   logOpen, solve_time, orphans, exitStatus, abortCause, enumerated,
                   results, validations, exe0,
                   disk0, elapsed_ns, returncode, reaped, TIMEOUT, now, started>>

\* Mutant: solve catches every exception of subprocess.run and returns None.
SpawnFailsCaught ==
    /\ pc = "Spawn"
    /\ exe # "ok"
    /\ solve_time' = None
    /\ pc' = "Recording"
    /\ UNCHANGED <<nFolders, fi, folderState, cur, ei, vanished, exe, parent, disk, buf,
                   logOpen, child, desc, orphans, exitStatus, abortCause, enumerated,
                   results, spawned, validations, exe0,
                   disk0, elapsed_ns, returncode, reaped, TIMEOUT, deadline, now, started>>

\* lines 36-37: subprocess.run raises OSError (PermissionError, or
\* FileNotFoundError when the binary went away after line 31); solve only
\* catches TimeoutExpired, so the error leaves solve and main.
SpawnFails ==
    /\ pc = "Spawn"
    /\ exe # "ok"
    /\ Abort("OSError")
    /\ UNCHANGED <<nFolders, fi, folderState, cur, ei, vanished, exe, parent, solve_time,
                   child, desc, orphans, enumerated, results, spawned, validations, exe0,
                   disk0, elapsed_ns, returncode, reaped, TIMEOUT, deadline, now, started>>

\* lines 37-42: the child exits before the timeout (its elapsed whole seconds
\* are below timeout=), with whatever exit code; the exit code is not looked
\* at.  duration = (time.perf_counter_ns() - start) // 1_000_000
ChildExits ==
    /\ pc = "Waiting"
    /\ \E ns \in ElapsedNs :
          /\ ns \div 1000000000 < deadline[1]
          /\ elapsed_ns' = Some(ns)
          /\ solve_time' = Some(DurationMs(ns))
    /\ \E code \in ExitCodes : returncode' = Some(code)
    /\ reaped' = reaped + 1
    /\ child' = "exited"
    /\ desc' = FALSE
    /\ pc' = "Recording"
    /\ UNCHANGED <<nFolders, fi, folderState, cur, ei, vanished, exe, parent, disk, buf,
                   logOpen, orphans, exitStatus, abortCause, enumerated, results, spawned,
                   validations, exe0,
                   disk0, TIMEOUT, deadline, now, started>>

\* Mutant: TimeoutExpired is not caught and leaves solve and main.
SolveTimeoutUncaught ==
    /\ pc = "Waiting"
    /\ child' = "killed"
    /\ orphans' = (orphans \/ desc)
    /\ desc' = FALSE
    /\ reaped' = reaped + 1
    /\ Abort("TimeoutExpired")
    /\ UNCHANGED <<nFolders, fi, folderState, cur, ei, vanished, exe, parent, solve_time,
                   enumerated, results, spawned, validations, exe0,
                   disk0, elapsed_ns, returncode, TIMEOUT, deadline, now, started>>

\* Mutant: after a timeout the solver is started again on the same instance.
SolveTimeoutRetry ==
    /\ pc = "Waiting"
    /\ child' = "killed"
    /\ orphans' = (orphans \/ desc)
    /\ desc' = FALSE
    /\ reaped' = reaped + 1
    /\ pc' = "Spawn"
    /\ UNCHANGED <<nFolders, fi, folderState, cur, ei, vanished, exe, parent, disk, buf,
                   logOpen, solve_time, exitStatus, abortCause, enumerated, results, spawned,
                   validations, exe0, disk0, elapsed_ns, returncode, TIMEOUT, deadline,
                   now, started>>

\* Mutant: the timeout only stops the waiting; the child is left running.
SolveTimeoutNoKill ==
    /\ pc = "Waiting"
    /\ elapsed_ns' = None
    /\ solve_time' = None
    /\ pc' = "Recording"
    /\ UNCHANGED <<nFolders, fi, folderState, cur, ei, vanished, exe, parent, disk, buf,
                   logOpen, child, desc, orphans, exitStatus, abortCause, enumerated,
                   results, spawned, validations, exe0, disk0, returncode, reaped, TIMEOUT,
                   deadline, now, started>>

\* lines 37, 44-45: the timeout elapses; subprocess.run kills the child it
\* started (Popen.kill, then wait) and raises TimeoutExpired, which solve
\* turns into None.  Processes the child started are not signalled.
SolveTimeout ==
    /\ pc = "Waiting"
    /\ child' = "killed"
    /\ orphans' = (orphans \/ desc)
    /\ desc' = FALSE
    /\ reaped' = reaped + 1
    /\ elapsed_ns' = None
    /\ solve_time' = None
    /\ pc' = "Recording"
    /\ UNCHANGED <<nFolders, fi, folderState, cur, ei, vanished, exe, parent, disk, buf,
                   logOpen, exitStatus, abortCause, enumerated, results, spawned,
                   validations, exe0,
                   disk0, returncode, TIMEOUT, deadline, now, started>>

\* Mutant: a row is written only when the instance was solved.
writerow_solved_only(b, row) == IF row[2] = "None" THEN b ELSE Append(b, row)

\* Mutant: the row is put in front of the rows written before.
writerow_in_front(b, row) == <<row>> \o b

\* csv.writer.writerow: the row goes to the end of the file object's buffer.
writerow(b, row) == Append(b, row)

\* line 69: writer.writerow([instance_file.as_posix(), str(solve_time)]).
\* The file is never flushed; the buffer reaches the disk only when a write
\* fills it (its size is in bytes, so any write may be the one) or on close.
WriteRow ==
    /\ pc = "Recording"
    /\ LET row == <<as_posix(instance_file.path), str(solve_time)>>
           b == writerow(buf, row)
       IN \E filled \in BOOLEAN :
             IF filled THEN disk' = disk \o b /\ buf' = <<>>
                       ELSE disk' = disk /\ buf' = b
    /\ results' = Append(results, solve_time)
    /\ returncode' = None
    /\ pc' = "InstanceLoop"
    /\ UNCHANGED <<nFolders, fi, folderState, cur, ei, vanished, exe, parent, logOpen,
                   solve_time, child, desc, orphans, exitStatus, abortCause, enumerated,
                   spawned, validations, exe0,
                   disk0, elapsed_ns, reaped, TIMEOUT, deadline, now, started>>

\* ------------------------------------------------------------ environment
\* The solver binary is removed while the harness runs.  The harness looks
\* at the binary on lines 31 and 36 only, so a removal at any earlier moment
\* is seen as one just before the next of these.
ExeVanishes ==
    /\ pc \in {"CheckBinary", "Spawn"}
    /\ exe # "missing"
    /\ exe' = "missing"
    /\ UNCHANGED <<pc, nFolders, fi, folderState, cur, ei, vanished, parent, disk, buf,
                   logOpen, solve_time, child, desc, orphans, exitStatus, abortCause,
                   enumerated, results, spawned, validations, exe0,
                   disk0, elapsed_ns, returncode, reaped, TIMEOUT, deadline, now, started>>

\* An enumerated instance is removed before solve looks at it.
InstanceVanishes ==
    /\ pc = "SolveEntry"
    /\ ~vanished
    /\ vanished' = TRUE
    /\ UNCHANGED <<pc, nFolders, fi, folderState, cur, ei, exe, parent, disk, buf, logOpen,
                   solve_time, child, desc, orphans, exitStatus, abortCause, enumerated,
                   results, spawned, validations, exe0,
                   disk0, elapsed_ns, returncode, reaped, TIMEOUT, deadline, now, started>>

\* The running child starts a process of its own.
ChildForks ==
    /\ pc = "Waiting"
    /\ ~desc
    /\ desc' = TRUE
    /\ UNCHANGED <<pc, nFolders, fi, folderState, cur, ei, vanished, exe, parent, disk, buf,
                   logOpen, solve_time, child, orphans, exitStatus, abortCause, enumerated,
                   results, spawned, validations, exe0,
                   disk0, elapsed_ns, returncode, reaped, TIMEOUT, deadline, now, started>>

\* The harness is killed (SIGKILL): nothing runs any more, the process's
\* memory (its loop variables and what the file object still buffered) is
\* gone, and the buffer never reaches the disk.
Kill ==
    /\ pc \in Running
    /\ logOpen
    /\ pc' = "Killed"
    /\ buf' = <<>>
    /\ logOpen' = FALSE
    /\ exitStatus' = 137
    /\ fi' = 0
    /\ cur' = <<>>
    /\ ei' = 0
    /\ solve_time' = None
    /\ returncode' = None
    /\ UNCHANGED <<nFolders, folderState, vanished, exe, parent, disk, child, desc,
                   orphans, abortCause, enumerated, results, spawned, validations, exe0,
                   disk0, elapsed_ns, reaped, TIMEOUT, deadline, now, started>>

Next ==
    \/ MkdirParent
    \/ OpenLog
    \/ NextFolder
    \/ Complete
    \/ NextInstance
    \/ EndFolder
    \/ CheckInstance
    \/ CheckBinary
    \/ SpawnChild
    \/ SpawnFails
    \/ ChildExits
    \/ SolveTimeout
    \/ WriteRow
    \/ ExeVanishes
    \/ InstanceVanishes
    \/ ChildForks
    \/ Kill

Spec == Init /\ [][Next]_vars

\* The steps of the harness itself (the child's exit or timeout included),
\* without the environment's.
HarnessNext ==
    \/ MkdirParent \/ OpenLog \/ NextFolder \/ Complete \/ NextInstance \/ EndFolder
    \/ CheckInstance \/ CheckBinary \/ SpawnChild \/ SpawnFails \/ ChildExits
    \/ SolveTimeout \/ WriteRow

\* ------------------------------------------------- tuning of TIMEOUT
\* Values the constant TIMEOUT of line 11 may be set to:
\* timedelta(seconds=s, milliseconds=ms).
TunedSeconds == {0, 1, 2, 29, 30, 31, 60, 3600, 86399, 86400, 86401, 86430, 172800, 172830}
TunedMillis == {0, 500}

\* solve has reached line 35 for the only instance of the only folder, with
\* TIMEOUT set to one of these values.
TuneInit ==
    /\ TIMEOUT \in {timedelta(s, ms) : s \in TunedSeconds, ms \in TunedMillis}
    /\ pc = "Spawn"
    /\ nFolders = 1
    /\ fi = 1
    /\ folderState = "dir"
    /\ cur = Glob(FolderPath(1), "dir", <<[suffix |-> ".cnf", kind |-> "file"]>>)
    /\ ei = 1
    /\ vanished = FALSE
    /\ exe = "ok"
    /\ parent = "dir"
    /\ disk = <<>>
    /\ buf = <<>>
    /\ logOpen = TRUE
    /\ solve_time = None
    /\ child = "none"
    /\ desc = FALSE
    /\ orphans = FALSE
    /\ exitStatus = -1
    /\ abortCause = ""
    /\ enumerated = [j \in 1..Len(cur) |-> cur[j].path]
    /\ results = <<>>
    /\ spawned = 0
    /\ validations = 1
    /\ exe0 = "ok"
    /\ disk0 = <<>>
    /\ elapsed_ns = None
    /\ returncode = None
    /\ reaped = 0
    /\ deadline = None
    /\ now = 0
    /\ started = <<>>

\* Lines 34-45 of solve: one call of subprocess.run and its outcome.
TuneNext ==
    \/ SpawnChild
    \/ ChildExits
    \/ SolveTimeout

TuneSpec == TuneInit /\ [][TuneNext]_vars

\* ------------------------------------------- default output path of a run
\* Number of runs started.
MaxRuns == 3

\* Moments of the wall clock, in milliseconds.
ClockMs == {0, 1, 999, 1000, 1001, 1999, 2000}

\* int(time.time()): the clock in whole seconds.
IntTime(ms) == ms \div 1000

\* lines 76-77: Path(f"./results/benchmark-{int(time.time())}.csv")
DefaultOutputFile(ms) ==
    <<Component("results", ""), Component("benchmark-" \o ToString(IntTime(ms)), ".csv")>>

\* Everything but the clock and the runs started.
runVars == <<pc, nFolders, fi, folderState, cur, ei, vanished, exe, parent, disk, buf,
             logOpen, solve_time, child, desc, orphans, exitStatus, abortCause,
             enumerated, results, spawned, validations, exe0, disk0, elapsed_ns,
             returncode, reaped, TIMEOUT, deadline>>

LaunchInit ==
    /\ now \in ClockMs
    /\ started = <<>>
    /\ pc = "Uninitialized"
    /\ nFolders = 1
    /\ fi = 0
    /\ folderState = "dir"
    /\ cur = <<>>
    /\ ei = 0
    /\ vanished = FALSE
    /\ exe = "ok"
    /\ parent = "dir"
    /\ disk = <<>>
    /\ buf = <<>>
    /\ logOpen = FALSE
    /\ solve_time = None
    /\ child = "none"
    /\ desc = FALSE
    /\ orphans = FALSE
    /\ exitStatus = -1
    /\ abortCause = ""
    /\ enumerated = <<>>
    /\ results = <<>>
    /\ spawned = 0
    /\ validations = 0
    /\ exe0 = "ok"
    /\ disk0 = <<>>
    /\ elapsed_ns = None
    /\ returncode = None
    /\ reaped = 0
    /\ TIMEOUT = timedelta(TimeoutSeconds, 0)
    /\ deadline = None

\* Time passes.
Tick ==
    /\ \E t \in ClockMs : t > now /\ now' = t
    /\ UNCHANGED <<started, runVars>>

\* lines 73-80: the harness is started without --output_file; the default
\* of the argument is computed from the clock.
StartRun ==
    /\ Len(started) < MaxRuns
    /\ started' = Append(started, [at |-> now, output_file |-> DefaultOutputFile(now)])
    /\ UNCHANGED <<now, runVars>>

LaunchNext ==
    \/ Tick
    \/ StartRun

LaunchSpec == LaunchInit /\ [][LaunchNext]_vars

\* ------------------------------------------------------------- properties
\* The rows the writer has been given that are still in the file: on disk or
\* in the buffer.
LogRows == disk \o buf

\* The log of this run exists: line 62 has opened (and truncated) it.
LogCreated == pc \notin {"Uninitialized", "ParentReady"} /\ abortCause # "FileNotFoundError"

\* Instances handed to solve so far: all that were enumerated, less those
\* of the current folder the inner loop has not reached.
Attempted == Len(enumerated) - (Len(cur) - ei)

\* The number of the folder, and of the entry in it, that a path names.
FolderIndex(p) == CHOOSE k \in 1..MaxFolders : FolderPath(k) = <<p[1]>>
EntryIndex(p) == CHOOSE j \in 1..MaxEntries : p[2].stem = "i" \o ToString(j)

\* C1: when main completes without a fatal error the log holds exactly one
\* row for every enumerated instance: as many rows as instances, and for
\* each enumerated path exactly one row that names it.
C1_OneRowPerInstance ==
    pc = "Completed" =>
        /\ buf = <<>>
        /\ Len(disk) = Len(enumerated)
        /\ \A i \in 1..Len(enumerated) :
              Cardinality({j \in 1..Len(disk) : disk[j][1] = as_posix(enumerated[i])}) = 1

C1_Witness ==
    /\ pc = "Completed"
    /\ Len(enumerated) = 3
    /\ \E i, j \in 1..Len(results) : results[i] = None /\ results[j] # None

\* C2: the row of an instance that timed out has the single character '-'
\* as its second column.
C2_TimeoutRowIsDash ==
    \A i \in 1..Len(LogRows) :
        (i <= Len(results) /\ results[i] = None) => LogRows[i][2] = "-"

\* C3: when the solver binary is missing from the start, the run ends with
\* a non-zero exit status and an empty log, whatever the folders hold.
C3_MissingBinaryFailsRun ==
    (exe0 = "missing" /\ pc \in {"Completed", "Aborted"}) =>
        (exitStatus # 0 /\ disk = <<>>)

\* C4: the run aborts for a missing binary only before any instance has
\* been invoked and before any row has been recorded.
C4_BinaryAbortBeforeAnyInstance ==
    (pc = "Aborted" /\ abortCause = "AssertionError: binary") =>
        (spawned = 0 /\ results = <<>> /\ validations = 1)

\* C5: when the harness is killed after k rows were recorded, the log file
\* on disk holds those k rows.
C5_RecordedRowsOnDisk ==
    pc = "Killed" => Len(disk) = Len(results)

\* C6: no process started by a timed-out invocation is alive once solve has
\* returned.
C6_NoProcessOutlivesTimeout ==
    orphans = FALSE

\* C7: the rows are in enumeration order: row i names the i-th enumerated
\* path, the rows of a folder precede those of the folders after it, and
\* within a folder the rows follow the folder's order.
C7_RowsInEnumerationOrder ==
    LogCreated =>
        /\ Len(LogRows) <= Len(enumerated)
        /\ \A i \in 1..Len(LogRows) : LogRows[i][1] = as_posix(enumerated[i])
        /\ \A i, j \in 1..Len(enumerated) :
              i < j =>
                 \/ FolderIndex(enumerated[i]) < FolderIndex(enumerated[j])
                 \/ /\ FolderIndex(enumerated[i]) = FolderIndex(enumerated[j])
                    /\ EntryIndex(enumerated[i]) < EntryIndex(enumerated[j])

C7_Witness ==
    /\ pc = "Completed"
    /\ Len(disk) = 3
    /\ FolderIndex(enumerated[1]) = 1
    /\ FolderIndex(enumerated[2]) = 1
    /\ FolderIndex(enumerated[3]) = 2

\* C8: a timeout is never fatal: the step on which the timeout elapses
\* leaves the run alive with None to record, the row of a timed-out instance
\* is written and the inner loop goes on, no run aborts on a timeout, the
\* harness always has a next step until it has completed or aborted, and a
\* completed run exits with status 0.
C8_TimeoutNotFatal ==
    /\ [][(pc = "Waiting" /\ child' = "killed") =>
            (pc' = "Recording" /\ solve_time' = None /\ exitStatus' = -1)]_vars
    /\ [][(pc = "Recording" /\ solve_time = None /\ pc' \notin {"Recording", "Killed"}) =>
            (/\ pc' = "InstanceLoop"
             /\ results' = Append(results, None)
             /\ Len(disk') + Len(buf') = Len(disk) + Len(buf) + 1)]_vars
    /\ [](abortCause # "TimeoutExpired")
    /\ [](pc \in Running => ENABLED HarnessNext)
    /\ [](pc = "Completed" => exitStatus = 0)

C8_Witness ==
    /\ pc = "Completed"
    /\ exitStatus = 0
    /\ Len(results) >= 2
    /\ results[1] = None

\* C9: a run that met a missing or unreadable folder does not complete: it
\* aborts with a non-zero exit status.
C9_MissingFolderFatal ==
    ~(pc = "Completed" /\ folderState # "dir")

\* C10: a failure to spawn the child is fatal: the step on which
\* subprocess.run fails ends the run with status 1 and writes no row, every
\* row in the log belongs to an instance whose child was spawned, and after
\* the abort the log holds no row for the instance that failed.
C10_SpawnFailureFatal ==
    /\ [][(pc = "Spawn" /\ exe # "ok" /\ pc' \notin {"Spawn", "Killed"}) =>
            (/\ pc' = "Aborted"
             /\ exitStatus' = 1
             /\ results' = results
             /\ disk' = disk \o buf)]_vars
    /\ [](Len(results) <= spawned)
    /\ []((pc = "Aborted" /\ abortCause = "OSError") =>
            /\ Len(disk) = Attempted - 1
            /\ \A j \in 1..Len(disk) : disk[j][1] # as_posix(instance_file.path))

C10_Witness ==
    /\ pc = "Aborted"
    /\ abortCause = "OSError"
    /\ Attempted >= 2
    /\ Len(disk) >= 1

\* The row main writes for the i-th enumerated instance.
RowOf(i) == <<as_posix(enumerated[i]), str(results[i])>>

\* C12: whenever the parent directory of the output path is absent, main
\* creates it and goes on to open the log: past line 60 the parent is a
\* directory and the run has not failed on it.
C12_ParentAlwaysCreated ==
    pc # "Uninitialized" => (parent = "dir" /\ abortCause # "FileNotFoundError")

\* C13: the log is created fresh: from line 62 on it holds rows of this run
\* only, nothing of what the file held before, and when the run has ended it
\* holds exactly the rows this run produced.
C13_LogCreatedFresh ==
    LogCreated =>
        /\ Len(LogRows) <= Len(results)
        /\ \A i \in 1..Len(LogRows) : LogRows[i] # OldRow /\ LogRows[i] = RowOf(i)
        /\ pc \in {"Completed", "Aborted"} => Len(disk) = Len(results)

C13_Witness ==
    /\ pc = "Completed"
    /\ disk0 = <<OldRow>>
    /\ Len(disk) >= 1

\* C14: when the child has exited before the timeout, with whatever exit
\* code, solve returns the elapsed nanoseconds floored to whole milliseconds,
\* a non-negative integer, and the row recorded for it carries that integer
\* and not the timeout marker.
C14_DurationFlooredMs ==
    /\ (pc = "Recording" /\ returncode # None) =>
          /\ elapsed_ns # None
          /\ solve_time # None
          /\ solve_time[1] >= 0
          /\ solve_time[1] * NsPerMs <= elapsed_ns[1]
          /\ elapsed_ns[1] < (solve_time[1] + 1) * NsPerMs
    /\ \A i \in 1..Len(LogRows) :
          (i <= Len(results) /\ results[i] # None) =>
              (LogRows[i][2] = ToString(results[i][1]) /\ LogRows[i][2] # "None")

C14_Witness ==
    /\ pc = "Recording"
    /\ returncode = Some(1)
    /\ elapsed_ns = Some(999999)
    /\ solve_time = Some(0)
    /\ Len(LogRows) = 1
    /\ LogRows[1][2] = "1"

\* C15: there is no retry: one child process is spawned per instance that
\* reached subprocess.run, never more than one per enumerated instance or
\* per evaluation of the binary check, and a timed-out child leaves None to
\* record.
C15_OneChildPerInstance ==
    /\ pc # "Killed" =>
          spawned = Len(results) + (IF pc \in {"Waiting", "Recording"} THEN 1 ELSE 0)
    /\ spawned <= Attempted
    /\ spawned <= validations
    /\ pc = "Completed" => spawned = Len(enumerated)
    /\ (pc = "Recording" /\ child = "killed") => solve_time = None

C15_Witness ==
    /\ pc = "Completed"
    /\ spawned = 3
    /\ results[2] = None

\* C16: an enumerated path that is not a regular file when solve is called
\* ends the run: no child is spawned for it, the exit status is 1, the log
\* holds no row for it, and it is not skipped (at the head of either loop
\* every instance handed to solve has a row).
C16_NonFileInstanceAborts ==
    /\ pc \in {"CheckBinary", "Spawn", "Waiting", "Recording"} =>
          (instance_file.kind = "file" /\ ~vanished)
    /\ pc \in {"InstanceLoop", "FolderLoop", "Completed"} => Len(results) = Attempted
    /\ (pc = "Aborted" /\ abortCause = "AssertionError: instance") =>
          /\ exitStatus = 1
          /\ spawned = Len(results)
          /\ Len(disk) = Attempted - 1
          /\ \A j \in 1..Len(disk) : disk[j][1] # as_posix(instance_file.path)

C16_Witness ==
    /\ pc = "Aborted"
    /\ abortCause = "AssertionError: instance"
    /\ vanished
    /\ Len(disk) >= 1

\* C17: invocations are sequential: at most one child of the harness is
\* alive, and only while solve waits for it; when the next child is about to
\* be started every earlier child is gone and has its row.
C17_OneChildAtATime ==
    /\ spawned - reaped \in {0, 1}
    /\ spawned - reaped = 1 => pc \in {"Waiting", "Killed"}
    /\ pc = "Spawn" => (reaped = spawned /\ Len(results) = spawned)

C17_Witness ==
    /\ pc = "Spawn"
    /\ spawned = 2
    /\ child = "killed"

\* C18: when the run aborts after the log was opened, the file is closed
\* and holds exactly the rows recorded before the abort, in their order.
C18_AbortKeepsRows ==
    (pc = "Aborted" /\ LogCreated) =>
        /\ ~logOpen
        /\ buf = <<>>
        /\ Len(disk) = Len(results)
        /\ \A i \in 1..Len(disk) : disk[i] = RowOf(i)

C18_Witness ==
    /\ pc = "Aborted"
    /\ abortCause = "AssertionError: binary"
    /\ Len(disk) = 2

\* C19: every path the glob yields is a regular file with the .cnf suffix
\* that lies directly in the folder.
C19_GlobYieldsFilesOnly ==
    \A i \in 1..Len(cur) :
        /\ cur[i].kind = "file"
        /\ cur[i].path[2].suffix = ".cnf"
        /\ Len(cur[i].path) = 2

\* C11: two runs started without --output_file at different moments have
\* different default output paths.
C11_DefaultPathsDiffer ==
    \A i, j \in 1..Len(started) :
        started[i].at # started[j].at =>
            as_posix(started[i].output_file) # as_posix(started[j].output_file)

\* The whole duration of a timedelta in milliseconds.
TotalMs(td) == td.days * 86400000 + td.seconds * 1000 + td.microseconds \div 1000

\* C20: when TIMEOUT is set to d whole seconds, the timeout handed to
\* subprocess.run is d seconds.
C20_DeadlineIsTimeout ==
    (deadline # None /\ TIMEOUT.microseconds = 0) =>
        deadline[1] * 1000 = TotalMs(TIMEOUT)

====
